---- MODULE Spec2Model ----
(***************************************************************************)
(* Model of the browser image converter (App.vue): ingestion of files,     *)
(* the shared edit settings, the conversion run (per-file path and         *)
(* animation-merge path), packaging, progress and error classification.    *)
(* The image engine and the archiver are external: a decoded image is a    *)
(* sequence of frame records, and an encoded blob is the record of what    *)
(* was handed to the encoder.                                              *)
(***************************************************************************)
EXTENDS Integers, Sequences, FiniteSets, TLC

(***************************************************************************)
(* Bounds of the model.                                                    *)
(***************************************************************************)
MaxItems == 2        \* items ever ingested in one behaviour (fresh ids)
MaxUserEdits == 3    \* changes of a setting in one behaviour
MaxMidRun == 1       \* user actions while one run is in flight

(***************************************************************************)
(* Program constants.                                                      *)
(***************************************************************************)
GRAVITY_CENTER == 5
DefaultQuality == 90
DefaultAnimationDelay == 200
DefaultResizePercent == 50
GifDisposeBackground == 2

(***************************************************************************)
(* Format catalog.  A MagickFormat value is its string.                    *)
(***************************************************************************)
quickFormats ==
  << <<"PNG", "PNG">>, <<"JPG", "JPEG">>, <<"GIF", "GIF">>,
     <<"ICO", "ICO">>, <<"WEBP", "WEBP">>, <<"PDF", "PDF">> >>

extraFormats ==
  << <<"BMP", "BMP">>, <<"TIFF", "TIFF">>, <<"TGA", "TGA">>,
     <<"AVIF", "AVIF">>, <<"DDS", "DDS">> >>

\* String.prototype.toLowerCase on the keys of the two tables.
toLowerCase(key) ==
  CASE key = "PNG"  -> "png"
    [] key = "JPG"  -> "jpg"
    [] key = "JPEG" -> "jpeg"
    [] key = "GIF"  -> "gif"
    [] key = "ICO"  -> "ico"
    [] key = "WEBP" -> "webp"
    [] key = "PDF"  -> "pdf"
    [] key = "BMP"  -> "bmp"
    [] key = "TIFF" -> "tiff"
    [] key = "TGA"  -> "tga"
    [] key = "AVIF" -> "avif"
    [] key = "DDS"  -> "dds"
    [] OTHER        -> key

\* Object.keys(table).find(key => table[key] === format); <<>> is undefined.
FindKey(table, format) ==
  LET hits == {k \in 1..Len(table) : table[k][2] = format}
  IN  IF hits = {} THEN <<>>
      ELSE << table[CHOOSE k \in hits : \A j \in hits : k <= j][1] >>

\* The lowercased name of the format itself.
resolveExtension_format(format) == toLowerCase(format)

\* The extension computed at the start of convertAndDownload.
resolveExtension(format) ==
  LET quickKey == FindKey(quickFormats, format)
      extraKey == FindKey(extraFormats, format)
      e1 == IF quickKey # <<>> THEN toLowerCase(quickKey[1]) ELSE "dat"
      e2 == IF extraKey # <<>> THEN toLowerCase(extraKey[1]) ELSE e1
  IN  IF e2 = "jpeg" THEN "jpg" ELSE e2

\* A list of multi-frame formats without TIFF.
MultiFrameFormats_noTiff == {"GIF", "WEBP", "PDF"}

MultiFrameFormats == {"GIF", "WEBP", "PDF", "TIFF"}

MergeFormats == {"GIF", "WEBP"}

isMultiFrameFormat(format) == format \in MultiFrameFormats

canMergeAnimation_loose(fileCount, format) ==
  fileCount >= 1 /\ format \in MergeFormats

canMergeAnimation(fileCount, format) ==
  IF fileCount < 2 THEN FALSE ELSE format \in MergeFormats

(***************************************************************************)
(* Inputs the user can choose from.                                        *)
(***************************************************************************)
FormatChoices == {"PNG", "GIF", "WEBP", "PDF"}
QualityChoices == {DefaultQuality, 40}
PercentChoices == {DefaultResizePercent, 75, 200}
PixelChoices == {0, 3}          \* 0: the field is empty (falsy)
DelayChoices == {DefaultAnimationDelay, 45}
ResizeModes == {"none", "percent", "pixels"}

ImgA == [name |-> <<"a", "png">>, type |-> <<"image", "png">>,
         frames |-> 1, width |-> 4, height |-> 2]
ImgB == [name |-> <<"b", "gif">>, type |-> <<"image", "gif">>,
         frames |-> 2, width |-> 2, height |-> 2]
Doc  == [name |-> <<"notes", "txt">>, type |-> <<"text", "plain">>,
         frames |-> 0, width |-> 0, height |-> 0]

FileUniverse == {ImgA, ImgB, Doc}

\* The batches a file picker or a drop hands to addFiles.
Batches ==
  { <<ImgA>>, <<ImgA, ImgB>>, <<Doc, ImgB>> }

\* Entries addFiles turns away: the k-th has the name (100 + k).txt; its
\* declared type is text/plain, application/pdf or empty.
MaxRejected == 7

RejectedFile(k) ==
  [name |-> <<ToString(100 + k), "txt">>,
   type |-> CASE k % 3 = 1 -> <<"text", "plain">>
              [] k % 3 = 2 -> <<"application", "pdf">>
              [] OTHER -> <<>>,
   frames |-> 0, width |-> 0, height |-> 0]

RejectedFiles(count) == [k \in 1..count |-> RejectedFile(k)]

\* Selections of 0..MaxRejected unsupported files, alone or mixed with
\* images before, after and around them.
ReportBatches ==
  UNION { { RejectedFiles(r),
            <<ImgA>> \o RejectedFiles(r),
            RejectedFiles(r) \o <<ImgB>>,
            <<ImgB>> \o RejectedFiles(r) \o <<ImgA>> } : r \in 0..MaxRejected }

(***************************************************************************)
(* Failure values.  A message is a sequence of tokens; a raised value may  *)
(* carry no message property at all.                                       *)
(***************************************************************************)
ErrorTexts ==
  { <<"corrupt image">>, <<"FailedToExecuteCommand">>,
    <<"ImagesAreNotTheSameSize">>, <<"ImagesAreNotTheSameSize", "ffmpeg">> }

ErrorValues ==
  {[hasMessage |-> TRUE, message |-> m] : m \in ErrorTexts}
    \cup {[hasMessage |-> FALSE, message |-> <<>>]}

\* Reading a property of undefined.
TypeErrorUndefined ==
  [hasMessage |-> TRUE, message |-> <<"Cannot read properties of undefined">>]

\* String.prototype.includes on a token sequence.
includes(message, token) == \E k \in 1..Len(message) : message[k] = token

\* "prefix" + e.message
Concat(prefix, e) ==
  <<prefix>> \o (IF e.hasMessage THEN e.message ELSE <<"undefined">>)

MsgNoCodec ==
  <<"This format requires external libraries (ffmpeg) not available. Please use GIF or WebP.">>
MsgFrameMismatch ==
  <<"GIF Error: Frames mismatch. Please ensure 'Resize' width/height are set if locking ratio.">>

(***************************************************************************)
(* Arithmetic helpers.                                                     *)
(***************************************************************************)
\* The JavaScript remainder: the sign of the dividend.
JsRem(a, n) == IF a >= 0 THEN a % n ELSE -((-a) % n)

Max(a, b) == IF a >= b THEN a ELSE b

\* Math.round(n / d) for n >= 0, d > 0: halves round up.
RoundDiv(n, d) == (2 * n + d) \div (2 * d)

\* A percentage kept exact, as a fraction.
Pct(n, d) == [num |-> n, den |-> d]

PctLeq(p, q) == p.num * q.den <= q.num * p.den

PctEq(p, q) == p.num * q.den = q.num * p.den

(***************************************************************************)
(* The image engine: decoding, the edits, encoding.                        *)
(***************************************************************************)
\* collection.read + coalesce: the self-contained frames of a file.
Decode(file) ==
  [k \in 1..file.frames |->
     [src |-> file.name, idx |-> k, width |-> file.width, height |-> file.height,
      rotation |-> 0, format |-> "SRC", quality |-> 0,
      animationDelay |-> 0, gifDisposeMethod |-> 0, extent |-> <<>>]]

\* image.rotate(degrees), degrees a multiple of 90.
Rotate(img, degrees) ==
  IF (JsRem(degrees, 180) = 0)
  THEN [img EXCEPT !.rotation = degrees]
  ELSE [img EXCEPT !.rotation = degrees, !.width = img.height, !.height = img.width]

RECURSIVE Pow2(_)
Pow2(k) == IF k = 0 THEN 1 ELSE 2 * Pow2(k - 1)

\* 2^k modulo d.
RECURSIVE Pow2Mod(_, _)
Pow2Mod(k, d) == IF k = 0 THEN 1 % d ELSE (2 * Pow2Mod(k - 1, d)) % d

\* floor(log2(k)) for k >= 1.
RECURSIVE Log2Floor(_)
Log2Floor(k) == IF k <= 1 THEN 0 ELSE 1 + Log2Floor(k \div 2)

RECURSIVE ShiftUp(_, _)
ShiftUp(num, den) == IF num >= den THEN 0 ELSE 1 + ShiftUp(2 * num, den)

RECURSIVE ShiftDown(_, _)
ShiftDown(num, den) == IF num < 2 * den THEN 0 ELSE 1 + ShiftDown(num, 2 * den)

\* The quotient num / den of two whole numbers is a double: the 53-bit
\* significand nearest to num * 2^(52 + t) / den, times 2^-(52 + t), where
\* t is the shift that brings num * 2^t / den into [1, 2).
QuotientShift(num, den) ==
  IF num < den THEN ShiftUp(num, den) ELSE -ShiftDown(num, den)

\* d without its factors of 2.
RECURSIVE OddPart(_)
OddPart(d) == IF d % 2 = 0 THEN OddPart(d \div 2) ELSE d

\* The rounding error of that double: it is num / den +
\* QuotientError(num, den) / (den * 2^(52 + t)).  The quotient is exact
\* when the odd part of den divides num; for the small numbers of a size
\* the remainder is never half of den.
QuotientError(num, den) ==
  IF num % OddPart(den) = 0 THEN 0
  ELSE LET r == (num * Pow2Mod(52 + QuotientShift(num, den), den)) % den
       IN  IF 2 * r < den THEN -r ELSE den - r

\* The doubles just below k + 1/2 are 2^(GapExponent(k) - 52) apart.
GapExponent(k) == IF k = 0 THEN -2 ELSE Log2Floor(k)

\* The double product len * (num / den), rounded to nearest, falls below
\* the exact k + 1/2.
BelowHalf(len, num, den, k) ==
  /\ num % OddPart(den) # 0
  /\ LET err == QuotientError(num, den)
         e == QuotientShift(num, den) + GapExponent(k) - 1
     IN  /\ err < 0
         /\ IF e < 0 THEN len * (-err) * Pow2(-e) > den
                     ELSE len * (-err) > den * Pow2(e)

\* The double len * (num / den) to the nearest whole number, halves up.
\* The product is off the exact len * num / den by far less than
\* 1 / (2 * den), so it is read differently only where the exact value is
\* k + 1/2 and the double falls below it.
ScaledNearest(len, num, den) ==
  LET n == len * num
      k == n \div den
  IN  IF 2 * (n % den) = den /\ BelowHalf(len, num, den, k)
      THEN k
      ELSE RoundDiv(n, den)

\* image.width * p with p = resizePercent.value / 100, a double, as the
\* engine reads it in a geometry.
GeometryNumber(size, percent) == ScaledNearest(size, percent, 100)

\* A resize to the box itself, whatever the aspect.
ResizeFit_stretch(img, w, h) == [img EXCEPT !.width = w, !.height = h]

\* image.resize(w, h): aspect-preserving fit into the box w x h.  The
\* engine takes the smaller of the doubles w / width and h / height as the
\* scale and rounds scale * width and scale * height to nearest.
ResizeFit(img, w, h) ==
  IF w * img.height <= h * img.width
  THEN [img EXCEPT !.width = Max(1, ScaledNearest(img.width, w, img.width)),
                   !.height = Max(1, ScaledNearest(img.height, w, img.width))]
  ELSE [img EXCEPT !.width = Max(1, ScaledNearest(img.width, h, img.height)),
                   !.height = Max(1, ScaledNearest(img.height, h, img.height))]

\* image.resize(geometry) with ignoreAspectRatio.
ResizeExact(img, w, h) == [img EXCEPT !.width = w, !.height = h]

applyEdits(img, cfg) ==
  LET rotated == IF cfg.rotation # 0 THEN Rotate(img, cfg.rotation) ELSE img
  IN  CASE cfg.resizeMode = "percent" ->
             \* image.resize(image.width * p, image.height * p), unrounded
             ResizeFit(rotated,
                       GeometryNumber(rotated.width, cfg.resizePercent),
                       GeometryNumber(rotated.height, cfg.resizePercent))
        [] cfg.resizeMode = "pixels" ->
             LET w == IF cfg.resizeWidth # 0 THEN cfg.resizeWidth ELSE rotated.width
                 h == IF cfg.resizeHeight # 0 THEN cfg.resizeHeight ELSE rotated.height
             IN  IF cfg.lockRatio THEN ResizeFit(rotated, w, h)
                 ELSE ResizeExact(rotated, w, h)
        [] OTHER -> rotated

\* The blob a successful processSingleImage(file) resolves with.
processSingleImage(file, cfg) ==
  LET decoded == Decode(file)
      edited == [k \in 1..Len(decoded) |->
                   [applyEdits(decoded[k], cfg) EXCEPT
                      !.format = cfg.targetFormat, !.quality = cfg.quality]]
  IN  IF isMultiFrameFormat(cfg.targetFormat)
      THEN [type |-> cfg.targetFormat, optimized |-> (cfg.targetFormat = "GIF"),
            frames |-> edited]
      ELSE [type |-> cfg.targetFormat, optimized |-> FALSE,
            frames |-> <<edited[1]>>]

\* One iteration of the merge loop: the frame pushed for a file.
MergeFrame(file, cfg) ==
  LET image == Decode(file)[1]
      edited == applyEdits(image, cfg)
      padded == IF cfg.targetFormat = "GIF" /\ cfg.resizeMode = "pixels"
                   /\ cfg.resizeWidth # 0 /\ cfg.resizeHeight # 0 /\ cfg.lockRatio
                THEN [edited EXCEPT !.width = cfg.resizeWidth,
                                    !.height = cfg.resizeHeight,
                                    !.extent = <<cfg.resizeWidth, cfg.resizeHeight,
                                                 GRAVITY_CENTER>>]
                ELSE edited
      timed == [padded EXCEPT !.animationDelay = RoundDiv(cfg.animationDelay, 10)]
  IN  IF cfg.targetFormat = "GIF"
      THEN [timed EXCEPT !.gifDisposeMethod = GifDisposeBackground]
      ELSE timed

\* The blob the merge resolves with once the loop has ended.
MergeBlob(frames, cfg) ==
  [type |-> cfg.targetFormat, optimized |-> (cfg.targetFormat = "GIF"),
   frames |-> frames]

\* name.replace(/\.[^/.]+$/, ""): a name is its dot-separated segments.
StripExtension(name) ==
  IF Len(name) >= 2 /\ name[Len(name)] # ""
  THEN SubSeq(name, 1, Len(name) - 1)
  ELSE name

NewName(name, e) == StripExtension(name) \o <<e>>

\* zip.file(name, blob) for each processed file, in order: a later entry
\* of the same name replaces the earlier one in place.
RECURSIVE ZipEntries(_)
ZipEntries(processed) ==
  IF processed = <<>> THEN <<>>
  ELSE LET n == Len(processed)
           before == ZipEntries(SubSeq(processed, 1, n - 1))
           last == processed[n]
       IN  IF \E k \in 1..Len(before) : before[k].name = last.name
           THEN [k \in 1..Len(before) |->
                   IF before[k].name = last.name THEN last ELSE before[k]]
           ELSE Append(before, last)

(***************************************************************************)
(* State.                                                                  *)
(***************************************************************************)
VARIABLES
  engine,          \* onMounted: "loading", "ready" or "failed"
  isReady, processing, progress, progressLabel, files, targetFormat,
  zipOutput, errorMessage, makeAnimation, animationDelay,
  resizeMode, resizePercent, resizeWidth, resizeHeight, lockRatio,
  rotation, quality,
  nextId,          \* the next fresh item id
  userEdits,       \* setting changes made so far
  midRun,          \* user actions made while the current run is in flight
  pc,              \* convertAndDownload: "idle", "single", "merge", "render",
                   \* "zip", "settled"
  i, totalFiles, ext, item, processedFiles, collection,
  zipPercent,      \* the percent the archiver's callback reported last
  downloads,       \* the triggerDownload calls of the current run
  job,             \* what the settings and the list were when the run started
  outcome,         \* "none", "ok" or "failed"
  raised,          \* the failure the run's catch block received
  unreleased,      \* engine objects the run created and has not disposed
  peak             \* the most decoded images the run held at one time

settingsVars ==
  <<targetFormat, zipOutput, makeAnimation, animationDelay, resizeMode,
    resizePercent, resizeWidth, resizeHeight, lockRatio, rotation, quality>>

engineVars == <<engine, isReady>>

localVars == <<i, totalFiles, ext, item, processedFiles, collection, zipPercent>>

historyVars == <<downloads, job, outcome, raised>>

resourceVars == <<unreleased, peak>>

runVars == <<pc, localVars, historyVars, resourceVars>>

displayVars == <<processing, progress, progressLabel>>

vars ==
  <<engineVars, displayVars, files, errorMessage, settingsVars, nextId,
    userEdits, midRun, runVars>>

\* The settings the pipelines read.
Cfg ==
  [targetFormat |-> targetFormat, quality |-> quality, rotation |-> rotation,
   resizeMode |-> resizeMode, resizePercent |-> resizePercent,
   resizeWidth |-> resizeWidth, resizeHeight |-> resizeHeight,
   lockRatio |-> lockRatio, animationDelay |-> animationDelay]

Init ==
  /\ engine = "loading"
  /\ isReady = FALSE
  /\ processing = FALSE
  /\ progress = Pct(0, 1)
  /\ progressLabel = <<>>
  /\ files = <<>>
  /\ targetFormat = "PNG"
  /\ zipOutput = FALSE
  /\ errorMessage = <<>>
  /\ makeAnimation = FALSE
  /\ animationDelay = DefaultAnimationDelay
  /\ resizeMode = "none"
  /\ resizePercent = DefaultResizePercent
  /\ resizeWidth = 0
  /\ resizeHeight = 0
  /\ lockRatio = TRUE
  /\ rotation = 0
  /\ quality = DefaultQuality
  /\ nextId = 1
  /\ userEdits = 0
  /\ midRun = 0
  /\ pc = "idle"
  /\ i = 0
  /\ totalFiles = 0
  /\ ext = "dat"
  /\ item = <<>>
  /\ processedFiles = <<>>
  /\ collection = <<>>
  /\ zipPercent = 0
  /\ downloads = <<>>
  /\ job = <<>>
  /\ outcome = "none"
  /\ raised = <<>>
  /\ unreleased = {}
  /\ peak = 0

(***************************************************************************)
(* Engine initialization (onMounted).                                      *)
(***************************************************************************)
InitializeOk ==
  /\ engine = "loading"
  /\ engine' = "ready"
  /\ isReady' = TRUE
  /\ UNCHANGED <<displayVars, files, errorMessage, settingsVars, nextId,
                 userEdits, midRun, runVars>>

InitializeFail(e) ==
  /\ engine = "loading"
  /\ engine' = "failed"
  /\ errorMessage' = Concat("Failed to load Magick: ", e)
  /\ UNCHANGED <<isReady, displayVars, files, settingsVars, nextId,
                 userEdits, midRun, runVars>>

(***************************************************************************)
(* File handling.  The watcher on files.length runs with the handler.      *)
(***************************************************************************)
\* A user action: while a run is in flight it counts against MaxMidRun.
\* The caller of processMergeAnimation resumes in a microtask, before any
\* event handler can run.
Interleave ==
  IF processing
  THEN pc # "render" /\ midRun < MaxMidRun /\ midRun' = midRun + 1
  ELSE UNCHANGED midRun

startsWithImage(type) == Len(type) >= 2 /\ type[1] = "image"

\* Any entry with a declared type passes.
IsImage_typed(f) == Len(f.type) >= 1

IsImage(f) == startsWithImage(f.type)
IsRejected(f) == ~startsWithImage(f.type)

\* A file name as message tokens.
RECURSIVE NameTokens(_)
NameTokens(name) ==
  IF Len(name) <= 1 THEN name
  ELSE <<name[1], ".">> \o NameTokens(Tail(name))

\* names.join(', ')
RECURSIVE JoinNames(_)
JoinNames(names) ==
  IF names = <<>> THEN <<>>
  ELSE IF Len(names) = 1 THEN NameTokens(names[1])
  ELSE NameTokens(names[1]) \o <<", ">> \o JoinNames(Tail(names))

\* A report that shows up to six names.
RejectedMessage_six(rejectedNames) ==
  LET displayNames ==
        JoinNames(SubSeq(rejectedNames, 1,
                         IF Len(rejectedNames) < 6 THEN Len(rejectedNames) ELSE 6))
      extraCount == Len(rejectedNames) - 6
      suffix == IF extraCount > 0
                THEN <<", and ", ToString(extraCount), " others.">>
                ELSE <<".">>
  IN  <<"Skipped unsupported files: ">> \o displayNames \o suffix

RejectedMessage(rejectedNames) ==
  LET displayNames ==
        JoinNames(SubSeq(rejectedNames, 1,
                         IF Len(rejectedNames) < 5 THEN Len(rejectedNames) ELSE 5))
      extraCount == Len(rejectedNames) - 5
      suffix == IF extraCount > 0
                THEN <<", and ", ToString(extraCount), " others.">>
                ELSE <<".">>
  IN  <<"Skipped unsupported files: ">> \o displayNames \o suffix

\* watch(() => files.value.length): the new zipOutput and makeAnimation.
ZipAfterCount(newCount) ==
  IF newCount > 1 /\ ~makeAnimation THEN TRUE ELSE zipOutput

\* A count watcher that leaves the animation switch alone.
AnimAfterCount_keep(newCount) == makeAnimation

AnimAfterCount(newCount) ==
  IF newCount < 2 THEN FALSE ELSE makeAnimation

addFiles(fileList) ==
  LET validFiles == SelectSeq(fileList, IsImage)
      rejected == SelectSeq(fileList, IsRejected)
      rejectedNames == [k \in 1..Len(rejected) |-> rejected[k].name]
      filesWithPreviews ==
        [k \in 1..Len(validFiles) |-> [id |-> nextId + k - 1, file |-> validFiles[k]]]
      newFiles == files \o filesWithPreviews
  IN  /\ nextId + Len(validFiles) - 1 <= MaxItems
      /\ Interleave
      /\ errorMessage' = IF Len(rejectedNames) > 0
                         THEN RejectedMessage(rejectedNames)
                         ELSE <<>>
      /\ files' = newFiles
      /\ nextId' = nextId + Len(validFiles)
      /\ IF Len(newFiles) # Len(files)
         THEN /\ zipOutput' = ZipAfterCount(Len(newFiles))
              /\ makeAnimation' = AnimAfterCount(Len(newFiles))
         ELSE UNCHANGED <<zipOutput, makeAnimation>>
      /\ UNCHANGED <<engineVars, displayVars, targetFormat, animationDelay,
                     resizeMode, resizePercent, resizeWidth, resizeHeight,
                     lockRatio, rotation, quality, userEdits, runVars>>

removeFile(id) ==
  LET Keep(f) == f.id # id
      newFiles == SelectSeq(files, Keep)
  IN  /\ \E k \in 1..Len(files) : files[k].id = id
      /\ Interleave
      /\ files' = newFiles
      /\ zipOutput' = ZipAfterCount(Len(newFiles))
      /\ makeAnimation' = AnimAfterCount(Len(newFiles))
      /\ UNCHANGED <<engineVars, displayVars, errorMessage, targetFormat,
                     animationDelay, resizeMode, resizePercent, resizeWidth,
                     resizeHeight, lockRatio, rotation, quality, nextId,
                     userEdits, runVars>>

(***************************************************************************)
(* Settings.  Each control is offered only where the template renders it;  *)
(* a watcher runs with the handler that changes what it watches.           *)
(***************************************************************************)
Edit ==
  /\ userEdits < MaxUserEdits
  /\ userEdits' = userEdits + 1
  /\ Interleave
  /\ UNCHANGED <<engineVars, displayVars, files, errorMessage, nextId, runVars>>

\* @click="targetFormat = val", selectFormat; watch(targetFormat).
selectFormat(format) ==
  /\ format # targetFormat
  /\ Edit
  /\ targetFormat' = format
  /\ makeAnimation' = IF ~canMergeAnimation(Len(files), format)
                      THEN FALSE ELSE makeAnimation
  /\ UNCHANGED <<zipOutput, animationDelay, resizeMode, resizePercent,
                 resizeWidth, resizeHeight, lockRatio, rotation, quality>>

SetQuality(q) ==
  /\ q # quality
  /\ Edit
  /\ quality' = q
  /\ UNCHANGED <<targetFormat, zipOutput, makeAnimation, animationDelay,
                 resizeMode, resizePercent, resizeWidth, resizeHeight,
                 lockRatio, rotation>>

\* A left turn without the remainder.
RotatedLeft_unbounded(r) == r - 90

\* (rotation.value - 90) % 360
RotatedLeft(r) == JsRem(r - 90, 360)

\* (rotation.value + 90) % 360
RotatedRight(r) == JsRem(r + 90, 360)

rotateLeft ==
  /\ Edit
  /\ rotation' = RotatedLeft(rotation)
  /\ UNCHANGED <<targetFormat, zipOutput, makeAnimation, animationDelay,
                 resizeMode, resizePercent, resizeWidth, resizeHeight,
                 lockRatio, quality>>

rotateRight ==
  /\ Edit
  /\ rotation' = RotatedRight(rotation)
  /\ UNCHANGED <<targetFormat, zipOutput, makeAnimation, animationDelay,
                 resizeMode, resizePercent, resizeWidth, resizeHeight,
                 lockRatio, quality>>

SetResizeMode(mode) ==
  /\ mode # resizeMode
  /\ Edit
  /\ resizeMode' = mode
  /\ UNCHANGED <<targetFormat, zipOutput, makeAnimation, animationDelay,
                 resizePercent, resizeWidth, resizeHeight, lockRatio,
                 rotation, quality>>

SetResizePercent(p) ==
  /\ resizeMode = "percent"
  /\ p # resizePercent
  /\ Edit
  /\ resizePercent' = p
  /\ UNCHANGED <<targetFormat, zipOutput, makeAnimation, animationDelay,
                 resizeMode, resizeWidth, resizeHeight, lockRatio, rotation,
                 quality>>

\* watch([resizeWidth, resizeHeight]): the new lockRatio.
LockAfterSize(newW, newH) ==
  IF newW # 0 /\ newH # 0 /\ resizeMode = "pixels" THEN FALSE ELSE lockRatio

SetResizeWidth(w) ==
  /\ resizeMode = "pixels"
  /\ w # resizeWidth
  /\ Edit
  /\ resizeWidth' = w
  /\ lockRatio' = LockAfterSize(w, resizeHeight)
  /\ UNCHANGED <<targetFormat, zipOutput, makeAnimation, animationDelay,
                 resizeMode, resizePercent, resizeHeight, rotation, quality>>

SetResizeHeight(h) ==
  /\ resizeMode = "pixels"
  /\ h # resizeHeight
  /\ Edit
  /\ resizeHeight' = h
  /\ lockRatio' = LockAfterSize(resizeWidth, h)
  /\ UNCHANGED <<targetFormat, zipOutput, makeAnimation, animationDelay,
                 resizeMode, resizePercent, resizeWidth, rotation, quality>>

ToggleLockRatio ==
  /\ resizeMode = "pixels"
  /\ Edit
  /\ lockRatio' = ~lockRatio
  /\ UNCHANGED <<targetFormat, zipOutput, makeAnimation, animationDelay,
                 resizeMode, resizePercent, resizeWidth, resizeHeight,
                 rotation, quality>>

ToggleZipOutput ==
  /\ ~makeAnimation
  /\ Edit
  /\ zipOutput' = ~zipOutput
  /\ UNCHANGED <<targetFormat, makeAnimation, animationDelay, resizeMode,
                 resizePercent, resizeWidth, resizeHeight, lockRatio,
                 rotation, quality>>

ToggleMakeAnimation ==
  /\ canMergeAnimation(Len(files), targetFormat)
  /\ Edit
  /\ makeAnimation' = ~makeAnimation
  /\ UNCHANGED <<targetFormat, zipOutput, animationDelay, resizeMode,
                 resizePercent, resizeWidth, resizeHeight, lockRatio,
                 rotation, quality>>

SetAnimationDelay(d) ==
  /\ canMergeAnimation(Len(files), targetFormat)
  /\ makeAnimation
  /\ d # animationDelay
  /\ Edit
  /\ animationDelay' = d
  /\ UNCHANGED <<targetFormat, zipOutput, makeAnimation, resizeMode,
                 resizePercent, resizeWidth, resizeHeight, lockRatio,
                 rotation, quality>>

(***************************************************************************)
(* The conversion run (convertAndDownload).  One action per stretch of     *)
(* code between two suspension points.                                     *)
(***************************************************************************)
LabelProcessing(name) == <<"Processing ">> \o NameTokens(name) \o <<"...">>

LabelAdding(k, n) == <<"Adding frame ", ToString(k), "/", ToString(n)>>

ArchiveName == <<"converted_images", "zip">>

\* The percent after `done` of `total` items: ((i + 1) / totalFiles) * 90.
ItemProgress(done, total) == Pct(90 * done, total)

\* The archiver's own percent put on display as it is.
PackagingProgress_raw(percent) == Pct(percent, 1)

\* The percent the archiver's callback sets: 90 + (metadata.percent * 0.1).
PackagingProgress(percent) == Pct(900 + percent, 10)

\* The percent at the top of the merge loop with `done` frames pushed:
\* (i / files.value.length) * 80.
FrameProgress(done, count) == Pct(80 * done, count)

\* What the archiver reports to its callback, in increasing order.
ZipPercents == {50, 100}

\* Engine objects: MagickImageCollection.create() of the merge, and the
\* MagickImage.create() made for the item with the given id.
MergeCollectionObject == [kind |-> "collection", id |-> 0]

ImageObject(id) == [kind |-> "image", id |-> id]

\* Where processMergeAnimation can raise: creating its collection, before
\* anything is awaited; reading the file's bytes, the
\* frame at its creation or its read, the read frame at its edits or its
\* padding, the optimize/encode at the end.
MergeStages == {"create", "bytes", "frame", "edit", "encode"}

\* Where processSingleImage can raise: before its collection holds a decoded
\* image (file.arrayBuffer, collection.read), or after (coalesce, the
\* edits, optimize, write).
SingleStages == {"bytes", "image"}

\* The Convert button's :disabled expression.
ConvertDisabled_noReady == Len(files) = 0 \/ processing

\* A button that stays enabled while a run is in flight.
ConvertDisabled_whileRunning == ~isReady \/ Len(files) = 0

ConvertDisabled == ~isReady \/ Len(files) = 0 \/ processing

\* The packaging decision after the per-file loop.
BundleAsArchive(zip, total) == zip \/ total > 1

\* The catch block: the message the run leaves in errorMessage.  A value
\* without a message makes e.message.includes raise inside the block, and
\* nothing is assigned.
CatchMessage(e, current) ==
  IF ~e.hasMessage THEN current
  ELSE IF includes(e.message, "FailedToExecuteCommand") \/ includes(e.message, "ffmpeg")
  THEN MsgNoCodec
  ELSE IF includes(e.message, "ImagesAreNotTheSameSize")
  THEN MsgFrameMismatch
  ELSE Concat("Conversion failed. ", e)

\* catch and finally: the run ends with failure e, raised while item k
\* (0-based) was next; the reset timer is armed.
Fail(e, k) ==
  /\ errorMessage' = CatchMessage(e, errorMessage)
  /\ raised' = <<[error |-> e, at |-> k]>>
  /\ outcome' = "failed"
  /\ pc' = "settled"

\* triggerDownload and finally: the run ends with one delivery.
Deliver(name, blob) ==
  /\ downloads' = Append(downloads, [name |-> name, blob |-> blob])
  /\ outcome' = "ok"
  /\ pc' = "settled"

StartRun ==
  /\ ~ConvertDisabled
  /\ Len(files) # 0
  /\ processing' = TRUE
  /\ errorMessage' = <<>>
  /\ ext' = resolveExtension(targetFormat)
  /\ downloads' = <<>>
  /\ outcome' = "none"
  /\ raised' = <<>>
  /\ i' = 0
  /\ item' = <<files[1]>>
  /\ processedFiles' = <<>>
  /\ collection' = <<>>
  /\ zipPercent' = 0
  /\ peak' = 0
  /\ IF makeAnimation /\ canMergeAnimation(Len(files), targetFormat)
     THEN /\ pc' = "merge"
          /\ progressLabel' = LabelAdding(1, Len(files))
          /\ progress' = FrameProgress(0, Len(files))
          /\ totalFiles' = 0
          /\ unreleased' = {MergeCollectionObject}
          /\ job' = <<[files |-> files, cfg |-> Cfg, zipOutput |-> zipOutput,
                       makeAnimation |-> makeAnimation, path |-> "merge"]>>
     ELSE /\ pc' = "single"
          /\ progressLabel' = LabelProcessing(files[1].file.name)
          /\ progress' = Pct(0, 1)
          /\ totalFiles' = Len(files)
          /\ unreleased' = {}
          /\ job' = <<[files |-> files, cfg |-> Cfg, zipOutput |-> zipOutput,
                       makeAnimation |-> makeAnimation, path |-> "single"]>>
  /\ midRun' = 0
  /\ UNCHANGED <<engineVars, files, settingsVars, nextId, userEdits>>

\* processSingleImage(item.file) resolved: the rest of the loop body, then
\* the next iteration up to its await, or the packaging decision.
SingleResolved ==
  /\ pc = "single"
  /\ LET blob == processSingleImage(item[1].file, Cfg)
         newName == NewName(item[1].file.name, ext)
         processed == Append(processedFiles, [name |-> newName, blob |-> blob])
     IN  /\ processedFiles' = processed
         /\ i' = i + 1
         /\ IF i + 1 < totalFiles
            THEN IF i + 2 <= Len(files)
                 THEN /\ item' = <<files[i + 2]>>
                      /\ progressLabel' = LabelProcessing(files[i + 2].file.name)
                      /\ progress' = ItemProgress(i + 1, totalFiles)
                      /\ UNCHANGED <<pc, errorMessage, historyVars>>
                 ELSE \* files.value[i] is undefined: item.file raises
                      /\ Fail(TypeErrorUndefined, i + 1)
                      /\ progress' = ItemProgress(i + 1, totalFiles)
                      /\ UNCHANGED <<item, progressLabel, downloads, job>>
            ELSE IF BundleAsArchive(zipOutput, totalFiles)
                 THEN /\ progressLabel' = <<"Compressing...">>
                      /\ progress' = ItemProgress(i + 1, totalFiles)
                      /\ pc' = "zip"
                      /\ UNCHANGED <<item, errorMessage, historyVars>>
                 ELSE /\ progressLabel' = <<"Finalizing...">>
                      /\ progress' = Pct(100, 1)
                      /\ Deliver(processed[1].name, processed[1].blob)
                      /\ UNCHANGED <<item, errorMessage, job, raised>>
  /\ peak' = Max(peak, 1)
  /\ UNCHANGED <<engineVars, processing, files, settingsVars, nextId,
                 userEdits, midRun, totalFiles, ext, collection, zipPercent,
                 unreleased>>

\* A rejected processSingleImage that the loop swallows, going on with the
\* next item.
SingleRejected_skip(e, stage) ==
  /\ pc = "single"
  /\ raised' = <<[error |-> e, at |-> i]>>
  /\ i' = i + 1
  /\ IF i + 1 < totalFiles /\ i + 2 <= Len(files)
     THEN /\ item' = <<files[i + 2]>>
          /\ UNCHANGED pc
     ELSE /\ pc' = "zip"
          /\ UNCHANGED item
  /\ UNCHANGED <<engineVars, displayVars, files, errorMessage, settingsVars,
                 nextId, userEdits, midRun, totalFiles, ext, processedFiles,
                 collection, zipPercent, downloads, job, outcome, resourceVars>>

\* processSingleImage(item.file) rejected: reading the bytes, decoding,
\* editing or encoding raised e.  Past collection.read the collection held
\* the decoded file until the finally block disposed it.
SingleRejected(e, stage) ==
  /\ pc = "single"
  /\ Fail(e, i)
  /\ peak' = IF stage = "image" THEN Max(peak, 1) ELSE peak
  /\ UNCHANGED <<engineVars, displayVars, files, settingsVars, nextId,
                 userEdits, midRun, localVars, downloads, job, unreleased>>

\* The archiver's progress callback.
ZipProgress(percent) ==
  /\ pc = "zip"
  /\ percent > zipPercent
  /\ zipPercent' = percent
  /\ progress' = PackagingProgress(percent)
  /\ UNCHANGED <<engineVars, processing, progressLabel, files, errorMessage,
                 settingsVars, nextId, userEdits, midRun, pc, i, totalFiles,
                 ext, item, processedFiles, collection, historyVars,
                 resourceVars>>

\* zip.generateAsync resolved.
ZipResolved ==
  /\ pc = "zip"
  /\ Deliver(ArchiveName, [type |-> "zip", entries |-> ZipEntries(processedFiles)])
  /\ UNCHANGED <<engineVars, displayVars, files, errorMessage, settingsVars,
                 nextId, userEdits, midRun, localVars, job, raised,
                 resourceVars>>

ZipRejected(e) ==
  /\ pc = "zip"
  /\ Fail(e, i)
  /\ UNCHANGED <<engineVars, displayVars, files, settingsVars, nextId,
                 userEdits, midRun, localVars, downloads, job, resourceVars>>

\* file.arrayBuffer() resolved inside processMergeAnimation: the rest of
\* the loop body, then the next iteration up to its await, or the optimize,
\* the encode and the release of the collection with the frames it holds.
MergeResolved ==
  /\ pc = "merge"
  /\ LET frames == Append(collection, MergeFrame(item[1].file, Cfg))
     IN  /\ collection' = frames
         /\ i' = i + 1
         /\ peak' = Max(peak, Len(frames))
         /\ IF i + 1 < Len(files)
            THEN /\ item' = <<files[i + 2]>>
                 /\ progressLabel' = LabelAdding(i + 2, Len(files))
                 /\ progress' = FrameProgress(i + 1, Len(files))
                 /\ unreleased' = unreleased \cup {ImageObject(item[1].id)}
                 /\ UNCHANGED pc
            ELSE /\ progressLabel' = <<"Rendering Animation...">>
                 /\ unreleased' = {}
                 /\ pc' = "render"
                 /\ UNCHANGED <<item, progress>>
  /\ UNCHANGED <<engineVars, processing, files, errorMessage, settingsVars,
                 nextId, userEdits, midRun, totalFiles, ext, processedFiles,
                 zipPercent, historyVars>>

\* await processMergeAnimation() resumed with the encoded blob.
MergeEncoded ==
  /\ pc = "render"
  /\ progress' = Pct(100, 1)
  /\ Deliver(<<"animation", ext>>, MergeBlob(collection, Cfg))
  /\ UNCHANGED <<engineVars, processing, progressLabel, files, errorMessage,
                 settingsVars, nextId, userEdits, midRun, localVars, job,
                 raised, resourceVars>>

\* processMergeAnimation rejected with e.  The finally block disposes the
\* collection and the frames pushed into it; a frame that was created and
\* not pushed belongs to nothing, and once read it is resident next to the
\* frames pushed before it.
MergeRejected(e, stage) ==
  CASE stage = "create" ->
         \* MagickImageCollection.create() raises in the task of the
         \* click, before the try block and the loop.
         /\ pc = "idle"
         /\ ~ConvertDisabled
         /\ Len(files) # 0
         /\ makeAnimation
         /\ canMergeAnimation(Len(files), targetFormat)
         /\ processing' = TRUE
         /\ progress' = Pct(0, 1)
         /\ progressLabel' = <<"Merging Animation...">>
         /\ errorMessage' = CatchMessage(e, <<>>)
         /\ raised' = <<[error |-> e, at |-> 0]>>
         /\ outcome' = "failed"
         /\ pc' = "settled"
         /\ ext' = resolveExtension(targetFormat)
         /\ downloads' = <<>>
         /\ i' = 0
         /\ totalFiles' = 0
         /\ item' = <<>>
         /\ processedFiles' = <<>>
         /\ collection' = <<>>
         /\ zipPercent' = 0
         /\ peak' = 0
         /\ unreleased' = {}
         /\ job' = <<[files |-> files, cfg |-> Cfg, zipOutput |-> zipOutput,
                      makeAnimation |-> makeAnimation, path |-> "merge"]>>
         /\ midRun' = 0
         /\ UNCHANGED <<engineVars, files, settingsVars, nextId, userEdits>>
    [] stage = "bytes" ->
         /\ pc = "merge"
         /\ Fail(e, i)
         /\ unreleased' = {}
         /\ UNCHANGED <<displayVars, localVars, peak>>
         /\ UNCHANGED <<engineVars, files, settingsVars, nextId, userEdits,
                        midRun, downloads, job>>
    [] stage = "frame" ->
         /\ pc = "merge"
         /\ Fail(e, i)
         /\ unreleased' = {ImageObject(item[1].id)}
         /\ UNCHANGED <<displayVars, localVars, peak>>
         /\ UNCHANGED <<engineVars, files, settingsVars, nextId, userEdits,
                        midRun, downloads, job>>
    [] stage = "edit" ->
         /\ pc = "merge"
         /\ Fail(e, i)
         /\ unreleased' = {ImageObject(item[1].id)}
         /\ peak' = Max(peak, Len(collection) + 1)
         /\ UNCHANGED <<displayVars, localVars>>
         /\ UNCHANGED <<engineVars, files, settingsVars, nextId, userEdits,
                        midRun, downloads, job>>
    [] stage = "encode" ->
         /\ pc = "merge"
         /\ i + 1 >= Len(files)
         /\ Fail(e, i + 1)
         /\ collection' = Append(collection, MergeFrame(item[1].file, Cfg))
         /\ i' = i + 1
         /\ peak' = Max(peak, Len(collection) + 1)
         /\ progressLabel' = <<"Rendering Animation...">>
         /\ unreleased' = {}
         /\ UNCHANGED <<processing, progress, totalFiles, ext, item,
                        processedFiles, zipPercent>>
         /\ UNCHANGED <<engineVars, files, settingsVars, nextId, userEdits,
                        midRun, downloads, job>>

\* A reset that leaves the progress label on display.
ResetTimer_keepLabel ==
  /\ pc = "settled"
  /\ processing' = FALSE
  /\ progress' = Pct(0, 1)
  /\ pc' = "idle"
  /\ i' = 0
  /\ totalFiles' = 0
  /\ ext' = "dat"
  /\ item' = <<>>
  /\ processedFiles' = <<>>
  /\ collection' = <<>>
  /\ zipPercent' = 0
  /\ downloads' = <<>>
  /\ job' = <<>>
  /\ outcome' = "none"
  /\ raised' = <<>>
  /\ unreleased' = {}
  /\ peak' = 0
  /\ midRun' = 0
  /\ UNCHANGED <<engineVars, progressLabel, files, errorMessage, settingsVars,
                 nextId, userEdits>>

\* The 500 ms timer armed by the finally block.
ResetTimer ==
  /\ pc = "settled"
  /\ processing' = FALSE
  /\ progress' = Pct(0, 1)
  /\ progressLabel' = <<>>
  /\ pc' = "idle"
  /\ i' = 0
  /\ totalFiles' = 0
  /\ ext' = "dat"
  /\ item' = <<>>
  /\ processedFiles' = <<>>
  /\ collection' = <<>>
  /\ zipPercent' = 0
  /\ downloads' = <<>>
  /\ job' = <<>>
  /\ outcome' = "none"
  /\ raised' = <<>>
  /\ unreleased' = {}
  /\ peak' = 0
  /\ midRun' = 0
  /\ UNCHANGED <<engineVars, files, errorMessage, settingsVars, nextId, userEdits>>

(***************************************************************************)
(* The specification.                                                      *)
(***************************************************************************)
UserAction ==
  \/ \E batch \in Batches : addFiles(batch)
  \/ \E id \in 1..MaxItems : removeFile(id)
  \/ \E format \in FormatChoices : selectFormat(format)
  \/ \E q \in QualityChoices : SetQuality(q)
  \/ rotateLeft
  \/ rotateRight
  \/ \E mode \in ResizeModes : SetResizeMode(mode)
  \/ \E p \in PercentChoices : SetResizePercent(p)
  \/ \E w \in PixelChoices : SetResizeWidth(w)
  \/ \E h \in PixelChoices : SetResizeHeight(h)
  \/ ToggleLockRatio
  \/ ToggleZipOutput
  \/ ToggleMakeAnimation
  \/ \E d \in DelayChoices : SetAnimationDelay(d)
  \/ StartRun

RunStep ==
  \/ SingleResolved
  \/ \E e \in ErrorValues, stage \in SingleStages : SingleRejected(e, stage)
  \/ MergeResolved
  \/ MergeEncoded
  \/ \E e \in ErrorValues, stage \in MergeStages \ {"create"} :
       MergeRejected(e, stage)
  \/ ZipResolved
  \/ \E e \in ErrorValues : ZipRejected(e)

Next ==
  \/ InitializeOk
  \/ \E e \in ErrorValues : InitializeFail(e)
  \/ UserAction
  \/ \E e \in ErrorValues : MergeRejected(e, "create")
  \/ RunStep
  \/ \E percent \in ZipPercents : ZipProgress(percent)
  \/ ResetTimer

Spec == Init /\ [][Next]_vars

\* Every awaited promise settles and the timer fires; the user is free.
FairSpec == Spec /\ WF_vars(RunStep) /\ WF_vars(ResetTimer)

\* Ingestion alone: the page after loading, with selections and drops of
\* up to MaxRejected unsupported files at a time, and removals.
IngestNext ==
  \/ InitializeOk
  \/ \E e \in ErrorValues : InitializeFail(e)
  \/ \E batch \in ReportBatches : addFiles(batch)
  \/ \E id \in 1..MaxItems : removeFile(id)

IngestSpec == Init /\ [][IngestNext]_vars

\* Every format the two tables offer.
CatalogFormats ==
  {quickFormats[k][2] : k \in 1..Len(quickFormats)}
    \cup {extraFormats[k][2] : k \in 1..Len(extraFormats)}

\* The resize controls as the user can have left them: untouched, percent
\* mode at its default, or pixels mode with each field empty or filled and
\* the lock either way.
ResizeSetups ==
  {[mode |-> "none", width |-> 0, height |-> 0, lock |-> TRUE],
   [mode |-> "percent", width |-> 0, height |-> 0, lock |-> TRUE]}
    \cup [mode : {"pixels"}, width : PixelChoices, height : PixelChoices,
          lock : BOOLEAN]

\* The lists the user can have built, ids in order of arrival.
ListSetups ==
  { <<[id |-> 1, file |-> ImgA]>>,
    <<[id |-> 1, file |-> ImgB]>>,
    <<[id |-> 1, file |-> ImgA], [id |-> 2, file |-> ImgB]>> }

\* The page with the engine loaded and the controls already set: any
\* format of the tables, any resize setup, a list of one or two images,
\* and the animation switch where the template offers it.  One change of a
\* setting is left to the user; the engine and the archiver do not fail.
WideInit ==
  /\ engine = "ready"
  /\ isReady = TRUE
  /\ processing = FALSE
  /\ progress = Pct(0, 1)
  /\ progressLabel = <<>>
  /\ files \in ListSetups
  /\ targetFormat \in CatalogFormats
  /\ zipOutput = (Len(files) > 1)
  /\ errorMessage = <<>>
  /\ makeAnimation \in {m \in BOOLEAN : m => canMergeAnimation(Len(files), targetFormat)}
  /\ animationDelay \in {d \in DelayChoices : ~makeAnimation => d = DefaultAnimationDelay}
  /\ \E setup \in ResizeSetups :
       /\ resizeMode = setup.mode
       /\ resizeWidth = setup.width
       /\ resizeHeight = setup.height
       /\ lockRatio = setup.lock
  /\ resizePercent = DefaultResizePercent
  /\ rotation = 0
  /\ quality = DefaultQuality
  /\ nextId = Len(files) + 1
  /\ userEdits = MaxUserEdits - 1
  /\ midRun = 0
  /\ pc = "idle"
  /\ i = 0
  /\ totalFiles = 0
  /\ ext = "dat"
  /\ item = <<>>
  /\ processedFiles = <<>>
  /\ collection = <<>>
  /\ zipPercent = 0
  /\ downloads = <<>>
  /\ job = <<>>
  /\ outcome = "none"
  /\ raised = <<>>
  /\ unreleased = {}
  /\ peak = 0

WideNext ==
  \/ UserAction
  \/ SingleResolved
  \/ MergeResolved
  \/ MergeEncoded
  \/ ZipResolved
  \/ ResetTimer

WideSpec == WideInit /\ [][WideNext]_vars

\* The rotations that turns from 0 lead to.
RotationValues == {90 * k : k \in (-3)..3}

\* The page with the engine loaded, a list of up to two images and the
\* image turned some way already.
RotateInit ==
  /\ engine = "ready"
  /\ isReady = TRUE
  /\ processing = FALSE
  /\ progress = Pct(0, 1)
  /\ progressLabel = <<>>
  /\ files \in ListSetups \cup {<<>>}
  /\ targetFormat = "PNG"
  /\ zipOutput = (Len(files) > 1)
  /\ errorMessage = <<>>
  /\ makeAnimation = FALSE
  /\ animationDelay = DefaultAnimationDelay
  /\ resizeMode = "none"
  /\ resizePercent = DefaultResizePercent
  /\ resizeWidth = 0
  /\ resizeHeight = 0
  /\ lockRatio = TRUE
  /\ rotation \in RotationValues
  /\ quality = DefaultQuality
  /\ nextId = Len(files) + 1
  /\ userEdits = 0
  /\ midRun = 0
  /\ pc = "idle"
  /\ i = 0
  /\ totalFiles = 0
  /\ ext = "dat"
  /\ item = <<>>
  /\ processedFiles = <<>>
  /\ collection = <<>>
  /\ zipPercent = 0
  /\ downloads = <<>>
  /\ job = <<>>
  /\ outcome = "none"
  /\ raised = <<>>
  /\ unreleased = {}
  /\ peak = 0

RotateNext ==
  \/ rotateLeft
  \/ rotateRight
  \/ \E batch \in Batches : addFiles(batch)
  \/ \E id \in 1..MaxItems : removeFile(id)

RotateSpec == RotateInit /\ [][RotateNext]_vars

(***************************************************************************)
(* Properties.                                                             *)
(***************************************************************************)
InFlight == pc \in {"single", "merge", "render", "zip"}

\* The file a frame was decoded from.
FileOf(name) == CHOOSE f \in FileUniverse : f.name = name

\* C1: snapshot isolation of the configuration.  Every output of a run is
\* what the pipeline produces from its source with the settings the run
\* started with, and the extension of each output name is that of the
\* format its bytes were encoded in.
C1_ConfigSnapshot ==
  job # <<>> =>
    /\ \A k \in 1..Len(processedFiles) :
         LET out == processedFiles[k]
         IN  /\ out.blob = processSingleImage(FileOf(out.blob.frames[1].src), job[1].cfg)
             /\ out.name[Len(out.name)] = resolveExtension(out.blob.type)
    /\ \A k \in 1..Len(collection) :
         collection[k] = MergeFrame(FileOf(collection[k].src), job[1].cfg)
    /\ (outcome = "ok" /\ job[1].path = "merge") =>
         /\ downloads[1].blob.type = job[1].cfg.targetFormat
         /\ downloads[1].name[2] = resolveExtension(downloads[1].blob.type)

\* C2: snapshot isolation of the item list.  A run processes exactly the
\* items the list held when it started, in that order, one output (or one
\* frame) per item, and never fails because the list changed under it.
C2_ItemSnapshot ==
  job # <<>> =>
    LET items == job[1].files
    IN  /\ Len(processedFiles) <= Len(items)
        /\ \A k \in 1..Len(processedFiles) :
             processedFiles[k].name = NewName(items[k].file.name, ext)
        /\ Len(collection) <= Len(items)
        /\ \A k \in 1..Len(collection) : collection[k].src = items[k].file.name
        /\ (outcome = "ok" /\ job[1].path = "merge") => Len(collection) = Len(items)
        /\ (outcome = "ok" /\ job[1].path = "single") => Len(processedFiles) = Len(items)
        /\ raised # <<>> => raised[1].error # TypeErrorUndefined

\* C3: abort on first failure.  Once a step of the run has failed while
\* item k was next, the run is over: nothing after item k is processed and
\* nothing is delivered, neither an archive nor a file nor an earlier
\* item's output.
C3_AbortOnFirstFailure ==
  raised # <<>> =>
    /\ pc = "settled"
    /\ outcome = "failed"
    /\ downloads = <<>>
    /\ Len(processedFiles) <= raised[1].at
    /\ Len(collection) <= raised[1].at

\* Item 2 of 2 failed after item 1 had been converted.
C3_Witness ==
  /\ raised # <<>>
  /\ raised[1].at = 1
  /\ totalFiles = 2
  /\ Len(processedFiles) = 1

\* C4: the run takes the merge path exactly when, at its start,
\* makeAnimation is set, the target format is GIF or WebP and the list
\* holds at least two items; otherwise it takes the per-file path.
C4_PathDecision ==
  job # <<>> =>
    LET j == job[1]
    IN  /\ (j.path = "merge") <=>
             (j.makeAnimation /\ j.cfg.targetFormat \in {"GIF", "WEBP"}
                /\ Len(j.files) >= 2)
        /\ j.path \in {"merge", "single"}
        /\ pc = "merge" => j.path = "merge"
        /\ pc \in {"single", "zip"} => j.path = "single"
        /\ collection # <<>> => j.path = "merge"
        /\ processedFiles # <<>> => j.path = "single"

\* A merge run that has taken in its first frame.
C4_Witness ==
  /\ job # <<>>
  /\ job[1].path = "merge"
  /\ pc = "merge"
  /\ Len(collection) = 1

\* A step in which the pipeline or the packaging fails.
PipelineFailure ==
  \/ \E e \in ErrorValues, stage \in SingleStages : SingleRejected(e, stage)
  \/ \E e \in ErrorValues, stage \in MergeStages : MergeRejected(e, stage)
  \/ \E e \in ErrorValues : ZipRejected(e)

\* C5: result shape.  A run that ends without a failing pipeline or
\* packaging step has delivered exactly one output: on the merge path a
\* single file; on the per-file path the archive converted_images.zip if
\* bundleAsZip was set when the run started or more than one item was
\* processed, and otherwise the single converted file under its derived
\* name.  Never two outputs, never none.
C5_ResultShape ==
  /\ [](Len(downloads) <= 1)
  /\ [][(pc # "settled" /\ pc' = "settled" /\ ~PipelineFailure) =>
          /\ Len(downloads') = 1
          /\ IF job'[1].path = "merge"
             THEN /\ downloads'[1].name = <<"animation", ext'>>
                  /\ downloads'[1].blob.type # "zip"
             ELSE IF job'[1].zipOutput \/ Len(processedFiles') > 1
                  THEN /\ downloads'[1].name = ArchiveName
                       /\ downloads'[1].blob.type = "zip"
                  ELSE /\ Len(processedFiles') = 1
                       /\ downloads'[1].name = processedFiles'[1].name
                       /\ downloads'[1].blob = processedFiles'[1].blob]_vars

\* The run state as the reset leaves it.
RunStateClear ==
  /\ ~processing
  /\ progress = Pct(0, 1)
  /\ progressLabel = <<>>

\* C6: every run that starts settles, and after it has settled the run
\* state is reset (processing false, percent 0, label empty), on success
\* and on failure alike; the reset never comes before the run has produced
\* its output or its error.
C6_RunSettlesAndResets ==
  /\ processing ~> RunStateClear
  /\ [](InFlight \/ pc = "settled" => processing)
  /\ [](~processing => RunStateClear /\ pc = "idle")
  /\ [][(processing /\ ~processing') =>
          (pc = "settled" /\ outcome \in {"ok", "failed"})]_vars

\* A failed run has settled and its reset is still to come.
C6_Witness ==
  /\ pc = "settled"
  /\ outcome = "failed"
  /\ processing
  /\ progress # Pct(0, 1)
  /\ progressLabel # <<>>

\* The message the classifier owes a failure.
Classified(e, message) ==
  IF e.hasMessage /\ (includes(e.message, "FailedToExecuteCommand")
                        \/ includes(e.message, "ffmpeg"))
  THEN message = MsgNoCodec
  ELSE IF e.hasMessage /\ includes(e.message, "ImagesAreNotTheSameSize")
  THEN message = MsgFrameMismatch
  ELSE /\ Len(message) >= 1
       /\ message[1] = "Conversion failed. "
       /\ e.hasMessage => message = <<"Conversion failed. ">> \o e.message

\* C7: error classification.  The step in which a run fails leaves exactly
\* the message the classifier owes the raised failure: the codec message
\* for FailedToExecuteCommand or ffmpeg (checked first), the size-mismatch
\* message for ImagesAreNotTheSameSize, and for every other failure, one
\* without message text included, the Unknown message with the raw text.
C7_ErrorClassification ==
  [][(raised = <<>> /\ raised' # <<>>) =>
       Classified(raised'[1].error, errorMessage')]_vars

\* C8: once engine initialization has failed, isReady stays false and no
\* run starts, whatever the user does.
C8_EngineUnavailableBlocksRuns ==
  /\ [](engine = "failed" =>
          /\ ~isReady
          /\ ~processing
          /\ pc = "idle"
          /\ job = <<>>)
  /\ [][engine = "failed" => engine' = "failed"]_vars

\* The engine has failed, files are listed and settings were changed.
C8_Witness ==
  /\ engine = "failed"
  /\ Len(files) >= 1
  /\ userEdits >= 1

\* C9: once engine initialization has failed, its message stays reported.
C9_EngineReportPersists ==
  engine = "failed" =>
    /\ Len(errorMessage) >= 1
    /\ errorMessage[1] = "Failed to load Magick: "

\* C10: a successful merge run hands the encoder one frame per item of the
\* run, in input order: frame k is the first decoded frame of item k.
C10_MergeFrameSequence ==
  (outcome = "ok" /\ job # <<>> /\ job[1].path = "merge") =>
    LET frames == downloads[1].blob.frames
        items == job[1].files
    IN  /\ Len(items) >= 2
        /\ Len(frames) = Len(items)
        /\ \A k \in 1..Len(frames) :
             /\ k <= Len(items)
             /\ frames[k].src = items[k].file.name
             /\ frames[k].idx = 1

\* C11: animation frame timing.  Every frame of a merged output carries the
\* stored delay d = round(delayMs / 10) of the frame delay delayMs the run
\* started with, so that 10 * d differs from delayMs by at most 5 (a tie goes
\* up), and its disposal method is "restore to background" exactly when the
\* target format the run started with is GIF.
C11_FrameTiming ==
  (outcome = "ok" /\ job # <<>> /\ job[1].path = "merge") =>
    LET frames == downloads[1].blob.frames
        delayMs == job[1].cfg.animationDelay
    IN  \A k \in 1..Len(frames) :
          /\ 10 * frames[k].animationDelay - delayMs \in (-4)..5
          /\ (frames[k].gifDisposeMethod = GifDisposeBackground)
               <=> (job[1].cfg.targetFormat = "GIF")

\* A run on the per-file path, from its start to its reset.
PerFileRun == job # <<>> /\ job[1].path = "single"

\* C12: per-file progress.  Over n items the percent is 0 at the start and
\* 90 * i / n once item i is done; while the archive is built it is
\* 90 + archiverPercent / 10, within [90, 100]; a run that delivers without
\* an archive sets it to 100; and from the start of the run until its reset
\* the percent never decreases and stays within [0, 100].
C12_PerFileProgress ==
  /\ [](pc = "single" =>
          /\ i < totalFiles
          /\ PctEq(progress, Pct(90 * i, totalFiles)))
  /\ [](pc = "zip" =>
          /\ i = totalFiles
          /\ PctEq(progress, Pct(900 + zipPercent, 10))
          /\ PctLeq(Pct(90, 1), progress)
          /\ PctLeq(progress, Pct(100, 1)))
  /\ [][(pc = "single" /\ pc' = "zip") => PctEq(progress', Pct(90, 1))]_vars
  /\ [][(pc = "single" /\ outcome' = "ok") => PctEq(progress', Pct(100, 1))]_vars
  /\ [](PerFileRun =>
          /\ PctLeq(Pct(0, 1), progress)
          /\ PctLeq(progress, Pct(100, 1)))
  /\ [][(PerFileRun /\ job' # <<>>) => PctLeq(progress, progress')]_vars

\* Two items are done and the archiver has reported half of its work.
C12_Witness ==
  /\ pc = "zip"
  /\ totalFiles = 2
  /\ zipPercent = 50
  /\ PctEq(progress, Pct(95, 1))

\* C13: animation-path progress.  During a merge run over n items the
\* percent is 80 * k / n once k of the n frames are ingested, so it is 80
\* when all frames are ingested and the encode is still to complete, and it
\* is 100 when the encode has completed.
C13_MergeProgress ==
  /\ (pc = "merge" /\ job # <<>>) =>
       PctEq(progress, Pct(80 * Len(collection), Len(job[1].files)))
  /\ pc = "render" => PctEq(progress, Pct(80, 1))
  /\ (outcome = "ok" /\ job # <<>> /\ job[1].path = "merge") =>
       PctEq(progress, Pct(100, 1))

\* The image entries of a batch, in batch order.
RECURSIVE ImagesOf(_)
ImagesOf(batch) ==
  IF batch = <<>> THEN <<>>
  ELSE IF Len(Head(batch).type) >= 2 /\ Head(batch).type[1] = "image"
  THEN <<Head(batch)>> \o ImagesOf(Tail(batch))
  ELSE ImagesOf(Tail(batch))

\* The names of the other entries of a batch, in batch order.
RECURSIVE RejectedNamesOf(_)
RejectedNamesOf(batch) ==
  IF batch = <<>> THEN <<>>
  ELSE IF Len(Head(batch).type) >= 2 /\ Head(batch).type[1] = "image"
  THEN RejectedNamesOf(Tail(batch))
  ELSE <<Head(batch).name>> \o RejectedNamesOf(Tail(batch))

\* C14: ingestion filter.  Whatever addFiles and removeFile calls were
\* made, every item of the list has a declared type beginning with
\* "image/"; and one addFiles call leaves the items already listed as they
\* are and appends the image entries of its batch, all of them and in batch
\* order, however many other entries the batch holds.
C14_IngestionFilter ==
  /\ [](\A k \in 1..Len(files) :
          /\ Len(files[k].file.type) >= 2
          /\ files[k].file.type[1] = "image")
  /\ [][\A batch \in ReportBatches :
          addFiles(batch) =>
            LET images == ImagesOf(batch)
            IN  /\ Len(files') = Len(files) + Len(images)
                /\ SubSeq(files', 1, Len(files)) = files
                /\ \A k \in 1..Len(images) :
                     files'[Len(files) + k].file = images[k]]_vars

\* A second selection with three unsupported files around it added b.gif
\* behind a.png.
C14_Witness ==
  /\ Len(files) = 2
  /\ files[1].file = ImgA
  /\ files[1].id = 1
  /\ files[2].file = ImgB
  /\ errorMessage = RejectedMessage(RejectedNamesOf(RejectedFiles(3)))

\* The tokens of names listed one after the other, ", " between two.
RECURSIVE Listed(_)
Listed(names) ==
  IF names = <<>> THEN <<>>
  ELSE IF Len(names) = 1 THEN NameTokens(names[1])
  ELSE Listed(SubSeq(names, 1, Len(names) - 1)) \o <<", ">>
         \o NameTokens(names[Len(names)])

\* The report owed to a batch with the given rejected names.
Reported(rejected, message) ==
  LET r == Len(rejected)
      shown == IF r <= 5 THEN r ELSE 5
      listing == Listed(SubSeq(rejected, 1, shown))
      n == Len(message)
      start == 1 + Len(listing)
  IN  IF r = 0 THEN message = <<>>
      ELSE /\ n > start
           /\ message[1] = "Skipped unsupported files: "
           /\ SubSeq(message, 2, start) = listing
           /\ \A k \in (shown + 1)..r :
                \A j \in 1..n : message[j] # rejected[k][1]
           /\ IF r > 5
              THEN /\ n = start + 3
                   /\ message[n - 2] = ", and "
                   /\ message[n - 1] = ToString(r - 5)
                   /\ message[n] = " others."
              ELSE /\ n = start + 1
                   /\ message[n] = "."

\* C15: rejection report.  An addFiles call on a batch with R > 0 entries
\* that are not images leaves a message that lists the first min(R, 5) of
\* their names in batch order and no other name, and that ends with
\* "and R-5 others." exactly when R > 5; with R = 0 the message is cleared.
C15_RejectionReport ==
  [][\A batch \in ReportBatches :
       addFiles(batch) => Reported(RejectedNamesOf(batch), errorMessage')]_vars

\* Seven unsupported files and one image were selected together: one item
\* is listed and the message ends with "and 2 others.".
C15_Witness ==
  /\ Len(files) = 1
  /\ Len(errorMessage) >= 3
  /\ errorMessage[Len(errorMessage) - 2] = ", and "
  /\ errorMessage[Len(errorMessage) - 1] = "2"
  /\ errorMessage[Len(errorMessage)] = " others."
  /\ \E j \in 1..Len(errorMessage) : errorMessage[j] = "105"
  /\ \A j \in 1..Len(errorMessage) : errorMessage[j] # "106"

\* C16: frame selection of the single-image pipeline.  The step that
\* converts an input of k >= 1 frames hands the encoder all k frames, in
\* order, when the target format is GIF, WebP, PDF or TIFF, and the first
\* frame alone otherwise; the output is optimized exactly when the target is
\* GIF; and every frame handed over is its decoded frame with the edits of
\* the settings in force, the same for all, in the target format and
\* quality.
C16_FrameSelection ==
  [][Len(processedFiles') = Len(processedFiles) + 1 =>
       LET out == processedFiles'[Len(processedFiles')]
           source == item[1].file
           decoded == Decode(source)
           frames == out.blob.frames
       IN  /\ source.frames >= 1
           /\ out.blob.type = targetFormat
           /\ Len(frames) = IF targetFormat \in {"GIF", "WEBP", "PDF", "TIFF"}
                            THEN source.frames ELSE 1
           /\ out.blob.optimized <=> (targetFormat = "GIF")
           /\ \A k \in 1..Len(frames) :
                /\ frames[k].src = source.name
                /\ frames[k].idx = k
                /\ frames[k] = [applyEdits(decoded[k], Cfg) EXCEPT
                                  !.format = targetFormat, !.quality = quality]
                /\ frames[k] = [frames[1] EXCEPT !.idx = k]]_vars

\* The two frames of b.gif went to the TIFF encoder, both stretched to 3x3.
C16_Witness ==
  /\ Len(processedFiles) >= 1
  /\ processedFiles[1].blob.type = "TIFF"
  /\ Len(processedFiles[1].blob.frames) = 2
  /\ processedFiles[1].blob.frames[2].src = ImgB.name
  /\ processedFiles[1].blob.frames[2].width = 3
  /\ processedFiles[1].blob.frames[2].height = 3

\* The extension the claim gives each format.
ExpectedExtension(format) ==
  CASE format = "JPEG" -> "jpg"
    [] format = "PNG"  -> "png"
    [] format = "GIF"  -> "gif"
    [] format = "ICO"  -> "ico"
    [] format = "WEBP" -> "webp"
    [] format = "PDF"  -> "pdf"
    [] format = "BMP"  -> "bmp"
    [] format = "TIFF" -> "tiff"
    [] format = "TGA"  -> "tga"
    [] format = "AVIF" -> "avif"
    [] format = "DDS"  -> "dds"
    [] OTHER           -> "dat"

\* Formats of the engine that neither table lists.
UnlistedFormats == {"SVG", "HEIC"}

\* C17: the extension of the output names is "jpg" for JPEG, the lowercase
\* table key for every other format of the two tables, and "dat" for a
\* format in neither; a run derives it from the target format it starts
\* with and from nothing else, and names every output with it.
C17_ResolveExtension ==
  /\ \A format \in CatalogFormats \cup UnlistedFormats :
       resolveExtension(format) = ExpectedExtension(format)
  /\ job # <<>> =>
       /\ ext = ExpectedExtension(job[1].cfg.targetFormat)
       /\ \A k \in 1..Len(processedFiles) :
            processedFiles[k].name[Len(processedFiles[k].name)] = ext
       /\ (outcome = "ok" /\ job[1].path = "merge") =>
            downloads[1].name = <<"animation", ext>>

\* A run started with JPEG as the target has named its first output a.jpg.
C17_Witness ==
  /\ job # <<>>
  /\ job[1].cfg.targetFormat = "JPEG"
  /\ ext = "jpg"
  /\ Len(processedFiles) = 1
  /\ processedFiles[1].name = <<"a", "jpg">>

\* C18: resource release on all exit paths.  When a run has delivered its
\* result or reported its error, no engine object the run created is left
\* undisposed: no collection, and no frame made for the merge, pushed or
\* not.
C18_ResourcesReleased ==
  (pc = "settled" /\ outcome \in {"ok", "failed"}) => unreleased = {}

\* C19: strictly sequential processing.  While item i + 1 is awaited, the
\* work on items 1..i is done and nothing else is in flight; and at no
\* moment of a run, on either path, is more than one decoded image held by
\* the engine.
C19_StrictlySequential ==
  /\ pc = "single" => Len(processedFiles) = i
  /\ pc = "merge" => Len(collection) = i
  /\ peak <= 1

\* The settings under which the merge pads a frame's canvas.
PadsCanvas(cfg) ==
  /\ cfg.targetFormat = "GIF"
  /\ cfg.resizeMode = "pixels"
  /\ cfg.resizeWidth # 0
  /\ cfg.resizeHeight # 0
  /\ cfg.lockRatio

\* C20: canvas padding for merged GIFs.  The merge pads a frame exactly
\* when, as the frame is built, the target is GIF, the resize mode is
\* pixels, width W and height H are both set and lockRatio is on; a padded
\* frame is pushed with exactly W x H pixels, extended around the center;
\* so in a collection with a padded frame all frames have the same
\* dimensions.
C20_CanvasPadding ==
  /\ [][(pc = "merge" /\ Len(collection') = Len(collection) + 1) =>
          LET frame == collection'[Len(collection')]
          IN  /\ (frame.extent # <<>>) <=> PadsCanvas(Cfg)
              /\ frame.extent # <<>> =>
                   /\ frame.extent = <<resizeWidth, resizeHeight, GRAVITY_CENTER>>
                   /\ frame.width = resizeWidth
                   /\ frame.height = resizeHeight]_vars
  /\ []((\E k \in 1..Len(collection) : collection[k].extent # <<>>) =>
          \A k \in 1..Len(collection) :
            /\ collection[k].width = collection[1].width
            /\ collection[k].height = collection[1].height)

\* The frame a step of the run has just handed on: the first frame of the
\* output it appended, or the frame it pushed.
StepAppends ==
  \/ Len(processedFiles') = Len(processedFiles) + 1
  \/ Len(collection') = Len(collection) + 1

AppendedFrame ==
  IF Len(processedFiles') = Len(processedFiles) + 1
  THEN processedFiles'[Len(processedFiles')].blob.frames[1]
  ELSE collection'[Len(collection')]

\* Width and height of the current item's image once rotated.
RotatedWidth ==
  IF rotation % 180 = 0 THEN item[1].file.width ELSE item[1].file.height

RotatedHeight ==
  IF rotation % 180 = 0 THEN item[1].file.height ELSE item[1].file.width

Abs(n) == IF n >= 0 THEN n ELSE -n

\* C21 as stated: pixel resize in applyEdits, after the rotation.  With
\* lockRatio on and the width W alone given, the output is no wider than W,
\* keeps the source's aspect (to the rounding of one dimension) and is
\* derived from W, that is, W wide; the same with height for width when
\* the height alone is given.  With lockRatio off and both given the output
\* is exactly W x H.  With neither given the dimensions are the source's.
C21_DerivedFromProvided ==
  [][(StepAppends /\ resizeMode = "pixels") =>
       LET out == AppendedFrame
           sw == RotatedWidth
           sh == RotatedHeight
       IN  /\ (lockRatio /\ resizeWidth # 0 /\ resizeHeight = 0) =>
                /\ out.width <= resizeWidth
                /\ 2 * Abs(out.height * sw - sh * out.width) <= sw
                /\ out.width = resizeWidth
           /\ (lockRatio /\ resizeWidth = 0 /\ resizeHeight # 0) =>
                /\ out.height <= resizeHeight
                /\ 2 * Abs(out.width * sh - sw * out.height) <= sh
                /\ out.height = resizeHeight
           /\ (~lockRatio /\ resizeWidth # 0 /\ resizeHeight # 0) =>
                /\ out.width = resizeWidth
                /\ out.height = resizeHeight
           /\ (resizeWidth = 0 /\ resizeHeight = 0) =>
                /\ out.width = sw
                /\ out.height = sh]_vars

\* C21, amended: pixel resize in applyEdits, after the rotation.  With
\* lockRatio on and the width W alone given, the output is no wider than W
\* and no higher than the source and keeps the source's aspect (to the
\* rounding of one dimension); it is W wide when W does not exceed the
\* source's width and has the source's dimensions when it does; the same
\* with height for width when the height alone is given.  With lockRatio
\* off and both given the output is exactly W x H.  With neither given the
\* dimensions are the source's.
C21_PixelResize ==
  [][(StepAppends /\ resizeMode = "pixels") =>
       LET out == AppendedFrame
           sw == RotatedWidth
           sh == RotatedHeight
       IN  /\ (lockRatio /\ resizeWidth # 0 /\ resizeHeight = 0) =>
                /\ out.width <= resizeWidth
                /\ out.height <= sh
                /\ 2 * Abs(out.height * sw - sh * out.width) <= sw
                /\ resizeWidth <= sw => out.width = resizeWidth
                /\ resizeWidth > sw => (out.width = sw /\ out.height = sh)
           /\ (lockRatio /\ resizeWidth = 0 /\ resizeHeight # 0) =>
                /\ out.height <= resizeHeight
                /\ out.width <= sw
                /\ 2 * Abs(out.width * sh - sw * out.height) <= sh
                /\ resizeHeight <= sh => out.height = resizeHeight
                /\ resizeHeight > sh => (out.width = sw /\ out.height = sh)
           /\ (~lockRatio /\ resizeWidth # 0 /\ resizeHeight # 0) =>
                /\ out.width = resizeWidth
                /\ out.height = resizeHeight
           /\ (resizeWidth = 0 /\ resizeHeight = 0) =>
                /\ out.width = sw
                /\ out.height = sh]_vars

\* a.png (4x2) and b.gif (2x2) were converted with the lock on and the
\* width 3 alone: the outputs are 3x2 and, not enlarged, 2x2.
C21_Witness ==
  /\ Len(processedFiles) = 2
  /\ processedFiles[1].blob.frames[1].src = ImgA.name
  /\ processedFiles[1].blob.frames[1].rotation = 0
  /\ processedFiles[1].blob.frames[1].width = 3
  /\ processedFiles[1].blob.frames[1].height = 2
  /\ processedFiles[2].blob.frames[1].src = ImgB.name
  /\ processedFiles[2].blob.frames[1].rotation = 0
  /\ processedFiles[2].blob.frames[1].width = 2
  /\ processedFiles[2].blob.frames[1].height = 2
  /\ resizeMode = "pixels"
  /\ lockRatio
  /\ resizeWidth = 3
  /\ resizeHeight = 0
  /\ midRun = 0

\* The frames a step of the run has just handed on.
AppendedFrames ==
  IF Len(processedFiles') = Len(processedFiles) + 1
  THEN processedFiles'[Len(processedFiles')].blob.frames
  ELSE <<collection'[Len(collection')]>>

\* C22: format and quality at the pipeline level.  Every frame a pipeline
\* hands to the encoder, the single-image pipeline and the merge alike,
\* carries the target format and the quality, set by the pipeline; and
\* applyEdits leaves the format and the quality of a frame as they were.
C22_FormatAndQuality ==
  [][StepAppends =>
       LET frames == AppendedFrames
           decoded == Decode(item[1].file)
       IN  /\ \A k \in 1..Len(frames) :
                /\ frames[k].format = targetFormat
                /\ frames[k].quality = quality
           /\ \A k \in 1..Len(decoded) :
                /\ applyEdits(decoded[k], Cfg).format = decoded[k].format
                /\ applyEdits(decoded[k], Cfg).quality = decoded[k].quality]_vars

\* C23: at most one run in flight.  A run starts only with the engine
\* ready, a non-empty list and processing false, and from the state the
\* last reset left; processing is true from the start of a run until its
\* reset; and the reset fires only for the run that has settled, never while
\* a run is under way.
C23_OneRunInFlight ==
  /\ [][(StartRun \/ \E e \in ErrorValues : MergeRejected(e, "create")) =>
          /\ isReady
          /\ Len(files) >= 1
          /\ ~processing
          /\ pc = "idle"
          /\ job = <<>>
          /\ processing']_vars
  /\ [](pc # "idle" => processing /\ job # <<>>)
  /\ [][(pc # "idle" /\ pc' = "idle") =>
          (pc = "settled" /\ processing /\ ~processing')]_vars
  /\ [][(InFlight /\ ~(pc' \in {"idle"})) => processing']_vars
  /\ [][(pc \in {"single", "merge", "render", "zip"} /\ job' # <<>>) =>
          job' = job]_vars

\* A run has delivered, its reset is still to come and the button is still
\* disabled.
C23_Witness ==
  /\ pc = "settled"
  /\ outcome = "ok"
  /\ processing
  /\ isReady
  /\ Len(files) >= 1
  /\ ConvertDisabled

\* C24: merge flag consistency.  With the watchers run, makeAnimation set
\* means at least two items and GIF or WebP as the target; a change of the
\* target to another format and a change of the count to below two clear
\* it; and it is set only by the user's toggle, offered while two items and
\* a mergeable format are there.
C24_MergeFlagConsistency ==
  /\ [](makeAnimation => (Len(files) >= 2 /\ targetFormat \in {"GIF", "WEBP"}))
  /\ [][(targetFormat' # targetFormat /\ targetFormat' \notin {"GIF", "WEBP"}) =>
          ~makeAnimation']_vars
  /\ [][(Len(files') # Len(files) /\ Len(files') < 2) => ~makeAnimation']_vars
  /\ [][(~makeAnimation /\ makeAnimation') =>
          /\ files' = files
          /\ targetFormat' = targetFormat
          /\ userEdits' = userEdits + 1
          /\ Len(files) >= 2
          /\ targetFormat \in {"GIF", "WEBP"}]_vars

\* A merge run was started with the switch on; an item was removed during
\* the run and the switch is off.
C24_Witness ==
  /\ job # <<>>
  /\ job[1].makeAnimation
  /\ job[1].path = "merge"
  /\ Len(files) = 1
  /\ targetFormat \in {"GIF", "WEBP"}
  /\ ~makeAnimation

\* Equal modulo 360.
SameAngle(a, b) == (a - b) % 360 = 0

\* C25: rotation accumulator.  After any turns rotation is a multiple of 90
\* strictly between -360 and 360, negative values included; a left turn
\* takes 90 off and a right turn adds 90, modulo 360; a right turn followed
\* by a left turn, and a left turn followed by a right turn, give the
\* rotation back modulo 360, and so do four turns the same way.
C25_RotationRange ==
  /\ [](/\ rotation % 90 = 0
        /\ -360 < rotation
        /\ rotation < 360)
  /\ [][(rotation' # rotation /\ userEdits' = userEdits + 1) =>
          \/ SameAngle(rotation', rotation - 90) /\ rotation' = RotatedLeft(rotation)
          \/ SameAngle(rotation', rotation + 90) /\ rotation' = RotatedRight(rotation)]_vars
  /\ [](/\ SameAngle(RotatedLeft(RotatedRight(rotation)), rotation)
        /\ SameAngle(RotatedRight(RotatedLeft(rotation)), rotation)
        /\ SameAngle(RotatedLeft(RotatedLeft(RotatedLeft(RotatedLeft(rotation)))),
                     rotation)
        /\ SameAngle(RotatedRight(RotatedRight(RotatedRight(RotatedRight(rotation)))),
                     rotation))
  /\ [][(rotation = -270 /\ rotation' # rotation) => rotation' \in {0, -180}]_vars
  /\ [][(rotation = 270 /\ rotation' # rotation) => rotation' \in {0, 180}]_vars

\* Three left turns from 0 and nothing else: the rotation is -270.
C25_Witness ==
  /\ rotation = -270
  /\ userEdits = 3
  /\ files = <<>>
  /\ nextId = 1

====
